---- MODULE Spec2Model ----
(***************************************************************************)
(* Wordle helper (src/main.py): the locked-letter inputs, the three-state  *)
(* keyboard, the word search over the ranked word table and the display    *)
(* of at most 200 results.                                                 *)
(*                                                                         *)
(* A Python str is a sequence of one-character strings; a Python list is a *)
(* sequence; list index i of the code is index i+1 here.                   *)
(***************************************************************************)
EXTENDS Integers, Sequences, FiniteSets, TLC

VARIABLES entries, letter_state, widgets, corpus, last_event

vars == <<entries, letter_state, widgets, corpus, last_event>>

(***************************************************************************)
(* Bounds of the model.                                                    *)
(***************************************************************************)
\* The user presses only the first ClickedKeys buttons of the keyboard.
ClickedKeys == 2
\* The user fills in at most MaxLocked of the entries.
MaxLocked == 2
\* The limits 0..SmallLimit are tried in place of the 200 of display_words.
SmallLimit == 3

(***************************************************************************)
(* Program constants.                                                      *)
(***************************************************************************)
\* display_words: `if word_number >= 200: break`
WordLimit == 200
\* InputLayout.__init__: `for x in range(5)`
NumEntries == 5
\* check_word: `if len(word) != 5`
WordLength == 5

\* LettersLayout.KEYBOARD, in the order the buttons are appended to self.letters
KEYBOARD ==
    <<"q", "w", "e", "r", "t", "y", "u", "i", "o", "p",
      "a", "s", "d", "f", "g", "h", "j", "k", "l",
      "z", "x", "c", "v", "b", "n", "m">>

\* LetterButton states
UNKNOWN == "unknown"
EXISTENT == "existent"
NONEXISTENT == "nonexistent"

(***************************************************************************)
(* Python string helpers.                                                  *)
(***************************************************************************)
\* A character is a one-character string.  The strings of this module are
\* Latin-1; a character outside Latin-1 is written by its code point, and the
\* string "U+0178" stands for the one character U+0178.  Three such characters
\* are needed to close Latin-1 under str.upper() and str.lower():
\*   "U+0178"  capital Y with diaeresis, the upper-case form of "ÿ"
\*   "U+039C"  Greek capital mu, the upper-case form of the micro sign "µ"
\*   "U+03BC"  Greek small mu, the lower-case form of "U+039C"
\*
\* The cased letters, lower-case form and upper-case form at the same index.  A
\* character outside these tables and the three kinds below is a non-letter
\* (true of every Latin-1 character; the letters of other scripts are not
\* modelled).
LOWERCASE ==
    <<"q", "w", "e", "r", "t", "y", "u", "i", "o", "p",
      "a", "s", "d", "f", "g", "h", "j", "k", "l", "z",
      "x", "c", "v", "b", "n", "m", "à", "á", "â", "ã",
      "ä", "å", "æ", "ç", "è", "é", "ê", "ë", "ì", "í",
      "î", "ï", "ð", "ñ", "ò", "ó", "ô", "õ", "ö", "ø",
      "ù", "ú", "û", "ü", "ý", "þ", "ÿ", "U+03BC">>

UPPERCASE ==
    <<"Q", "W", "E", "R", "T", "Y", "U", "I", "O", "P",
      "A", "S", "D", "F", "G", "H", "J", "K", "L", "Z",
      "X", "C", "V", "B", "N", "M", "À", "Á", "Â", "Ã",
      "Ä", "Å", "Æ", "Ç", "È", "É", "Ê", "Ë", "Ì", "Í",
      "Î", "Ï", "Ð", "Ñ", "Ò", "Ó", "Ô", "Õ", "Ö", "Ø",
      "Ù", "Ú", "Û", "Ü", "Ý", "Þ", "U+0178", "U+039C">>

\* a lower-case letter whose upper-case form is two characters
SHARP_S == "ß"
\* the micro sign, a lower-case letter: its upper-case form is Greek capital
\* mu, whose lower-case form is Greek small mu
MICRO_SIGN == "µ"
\* lower-case letters that str.upper() leaves alone (the ordinal indicators)
LOWER_ONLY == {"ª", "º"}

\* str.islower() / str.isupper() of one character
IsLower(c) ==
    \/ c = SHARP_S
    \/ c = MICRO_SIGN
    \/ c \in LOWER_ONLY
    \/ \E i \in 1..Len(LOWERCASE) : LOWERCASE[i] = c
IsUpper(c) == \E i \in 1..Len(UPPERCASE) : UPPERCASE[i] = c

\* str.upper() of one character: a str, of one or two characters
upper_char(c) ==
    IF c = SHARP_S THEN <<"S", "S">>
    ELSE IF c = MICRO_SIGN THEN <<"U+039C">>
    ELSE IF \E i \in 1..Len(LOWERCASE) : LOWERCASE[i] = c
    THEN <<UPPERCASE[CHOOSE i \in 1..Len(LOWERCASE) : LOWERCASE[i] = c]>>
    ELSE <<c>>

\* str.lower() of one character: a str
lower_char(c) ==
    IF \E i \in 1..Len(UPPERCASE) : UPPERCASE[i] = c
    THEN <<LOWERCASE[CHOOSE i \in 1..Len(UPPERCASE) : UPPERCASE[i] = c]>>
    ELSE <<c>>

\* ''.join of a list of strs
RECURSIVE join(_)
join(parts) == IF parts = <<>> THEN <<>> ELSE Head(parts) \o join(Tail(parts))

\* str.upper()
upper(s) == join([i \in 1..Len(s) |-> upper_char(s[i])])
\* str.lower()
lower(s) == join([i \in 1..Len(s) |-> lower_char(s[i])])
\* str.isalpha(): non-empty and every character a letter
isalpha(s) ==
    Len(s) > 0 /\ \A i \in 1..Len(s) : IsLower(s[i]) \/ IsUpper(s[i])
\* `sub in word` on two strs: substring test
contains(word, sub) ==
    \E i \in 0..(Len(word) - Len(sub)) : SubSeq(word, i + 1, i + Len(sub)) = sub

(***************************************************************************)
(* LetterInput / InputLayout.                                              *)
(***************************************************************************)
\* TextInput.insert_text on a single-line input: the substring goes in at the
\* cursor; an empty substring changes nothing.  After `self.text = ''` the
\* cursor is at 0.
text_insert(text, substring) == text \o substring

\* LetterInput.insert_text: the new text of the entry
insert_text(text, substring) ==
    IF isalpha(substring)
    THEN text_insert(<<>>, upper(substring))
    ELSE text_insert(text, <<>>)

\* InputLayout.get_known_letters: (entry.text.lower(), index) of the non-empty
\* entries, in index order
get_known_letters(es) ==
    LET all == [i \in 1..Len(es) |-> <<lower(es[i]), i - 1>>]
        filled(p) == es[p[2] + 1] # <<>>
    IN SelectSeq(all, filled)

(***************************************************************************)
(* LetterButton / LettersLayout.                                           *)
(***************************************************************************)
\* LetterButton.letter of each button of self.letters, set at construction:
\* text=let.upper(), self.letter = self.text.lower()
button_letter == [k \in 1..Len(KEYBOARD) |-> lower(upper(<<KEYBOARD[k]>>))]

\* change_state with the two coloured states in the wrong order
change_state_swapped(s) ==
    IF s = UNKNOWN THEN NONEXISTENT
    ELSE IF s = NONEXISTENT THEN EXISTENT
    ELSE UNKNOWN

\* LetterButton.change_state: the new letter_state
change_state(s) ==
    IF s = UNKNOWN THEN EXISTENT
    ELSE IF s = EXISTENT THEN NONEXISTENT
    ELSE UNKNOWN

\* the letters of the buttons in state `s`, in self.letters order
letters_in_state(ls, s) ==
    LET idx == [k \in 1..Len(ls) |-> k]
        hit(k) == ls[k] = s
        sel == SelectSeq(idx, hit)
    IN [j \in 1..Len(sel) |-> button_letter[sel[j]]]

\* LettersLayout.get_existent_letters
get_existent_letters(ls) == letters_in_state(ls, EXISTENT)

\* get_nonexistent_letters testing `!= UNKNOWN` instead of `== NONEXISTENT`
get_nonexistent_letters_not_unknown(ls) ==
    letters_in_state(ls, NONEXISTENT) \o letters_in_state(ls, EXISTENT)

\* LettersLayout.get_nonexistent_letters
get_nonexistent_letters(ls) == letters_in_state(ls, NONEXISTENT)

(***************************************************************************)
(* WHScreen.search_words.                                                  *)
(***************************************************************************)
\* check_word without the loop over the nonexistent letters
check_word_no_nonexistent(word, known_letters, existent_letters, nonexistent_letters) ==
    IF Len(word) # WordLength THEN FALSE
    ELSE IF \E j \in 1..Len(existent_letters) :
                ~contains(word, existent_letters[j]) THEN FALSE
    ELSE IF \E j \in 1..Len(known_letters) :
                <<word[known_letters[j][2] + 1]>> # known_letters[j][1] THEN FALSE
    ELSE TRUE

\* check_word testing only the last of the nonexistent letters
check_word_last_nonexistent(word, known_letters, existent_letters, nonexistent_letters) ==
    IF Len(word) # WordLength THEN FALSE
    ELSE IF \E j \in 1..Len(existent_letters) :
                ~contains(word, existent_letters[j]) THEN FALSE
    ELSE IF \E j \in {Len(nonexistent_letters)} \ {0} :
                contains(word, nonexistent_letters[j]) THEN FALSE
    ELSE IF \E j \in 1..Len(known_letters) :
                <<word[known_letters[j][2] + 1]>> # known_letters[j][1] THEN FALSE
    ELSE TRUE

\* check_word whose nonexistent test leaves the locked positions out
check_word_exempts_locked(word, known_letters, existent_letters, nonexistent_letters) ==
    IF Len(word) # WordLength THEN FALSE
    ELSE IF \E j \in 1..Len(existent_letters) :
                ~contains(word, existent_letters[j]) THEN FALSE
    ELSE IF \E j \in 1..Len(nonexistent_letters) :
                \E p \in 1..Len(word) :
                    /\ <<word[p]>> = nonexistent_letters[j]
                    /\ \A l \in 1..Len(known_letters) : known_letters[l][2] + 1 # p
            THEN FALSE
    ELSE IF \E j \in 1..Len(known_letters) :
                <<word[known_letters[j][2] + 1]>> # known_letters[j][1] THEN FALSE
    ELSE TRUE

\* word_retriever.check_word
check_word(word, known_letters, existent_letters, nonexistent_letters) ==
    IF Len(word) # WordLength THEN FALSE
    ELSE IF \E j \in 1..Len(existent_letters) :
                ~contains(word, existent_letters[j]) THEN FALSE
    ELSE IF \E j \in 1..Len(nonexistent_letters) :
                contains(word, nonexistent_letters[j]) THEN FALSE
    ELSE IF \E j \in 1..Len(known_letters) :
                <<word[known_letters[j][2] + 1]>> # known_letters[j][1] THEN FALSE
    ELSE TRUE

\* word_retriever that stops at the first rejected row instead of going on
word_retriever_stops(rows, known_letters, existent_letters, nonexistent_letters) ==
    LET bad(i) == ~check_word(rows[i], known_letters, existent_letters, nonexistent_letters)
        n == IF \E i \in 1..Len(rows) : bad(i)
             THEN (CHOOSE i \in 1..Len(rows) : bad(i) /\ \A m \in 1..(i - 1) : ~bad(m)) - 1
             ELSE Len(rows)
    IN SubSeq(rows, 1, n)

\* word_retriever over the rows in ascending order
word_retriever_ascending(rows, known_letters, existent_letters, nonexistent_letters) ==
    LET ok(w) == check_word(w, known_letters, existent_letters, nonexistent_letters)
        reversed == [i \in 1..Len(rows) |-> rows[Len(rows) + 1 - i]]
    IN SelectSeq(reversed, ok)

\* word_retriever: the words the generator yields when run to the end, over
\* the rows of `SELECT word from WORDS ORDER BY probability DESC`
word_retriever(rows, known_letters, existent_letters, nonexistent_letters) ==
    LET ok(w) == check_word(w, known_letters, existent_letters, nonexistent_letters)
    IN SelectSeq(rows, ok)

(***************************************************************************)
(* WordsDisplayer.                                                         *)
(***************************************************************************)
\* the break tested with > instead of >=
loop_breaks_late(word_number, limit) == word_number > limit

\* display_words: `if word_number >= 200: break`, tested after the word_number-th
\* label has been added; `limit` is the number the test compares with
loop_breaks(word_number, limit) == word_number >= limit

\* the loop of display_words over n_words words: the number of labels added,
\* the first word_number at which the break fires, or all of them
display_count(n_words, limit) ==
    IF \E n \in 1..n_words : loop_breaks(n, limit)
    THEN CHOOSE n \in 1..n_words :
             loop_breaks(n, limit) /\ \A m \in 1..(n - 1) : ~loop_breaks(m, limit)
    ELSE n_words

\* WordsDisplayer.display_words: the label texts after the call; the code's
\* test compares with the literal 200
display_words(words_list) ==
    SubSeq(words_list, 1, display_count(Len(words_list), WordLimit))

\* the label that heads the starting words
STARTING_HEADER ==
    <<"B", "E", "S", "T", " ", "S", "T", "A", "R", "T", "I", "N", "G", " ",
      "W", "O", "R", "D", "S">>

\* the first line of starting_words.txt, split on whitespace
STARTING_WORDS_FILE ==
    << <<"C", "r", "a", "n", "e">>, <<"s", "l", "a", "t", "e">> >>

\* WordsDisplayer.load_starting_words: the label texts after the call
load_starting_words ==
    <<STARTING_HEADER>> \o
    [i \in 1..Len(STARTING_WORDS_FILE) |-> lower(STARTING_WORDS_FILE[i])]

(***************************************************************************)
(* The word table (words.sqlite), as the rows of the ORDER BY query.       *)
(***************************************************************************)
\* a small table: a six-letter row, a four-letter row, a capitalised row
MixedCorpus ==
    << <<"q", "u", "i", "e", "t">>,
       <<"q", "w", "e", "r", "t", "y">>,
       <<"w", "r", "e", "s", "t">>,
       <<"Q", "u", "e", "r", "y">>,
       <<"t", "w", "e", "e", "t">>,
       <<"w", "e", "r", "e">>,
       <<"q", "u", "e", "u", "e">>,
       <<"c", "r", "a", "n", "e">>,
       <<"e", "q", "u", "a", "l">> >>

\* a short table of five-letter words
ShortCorpus ==
    << <<"t", "o", "w", "e", "r">>,
       <<"q", "u", "o", "t", "a">>,
       <<"w", "a", "t", "e", "r">>,
       <<"r", "o", "u", "t", "e">> >>

\* a table of more than WordLimit rows: every five-letter string over q, w, e
TERNARY == <<"q", "w", "e">>
PLACE == <<81, 27, 9, 3, 1>>
ternary_word(n) ==
    [p \in 1..Len(PLACE) |-> TERNARY[((n \div PLACE[p]) % Len(TERNARY)) + 1]]
BigCorpus == [n \in 1..243 |-> ternary_word(n - 1)]

SmallCorpora == {MixedCorpus, ShortCorpus}
Corpora == SmallCorpora \cup {BigCorpus}

\* what the user types or pastes into an entry
InputStrings == { <<"w">>, <<"1">>, <<"Q", "w">>, <<"ß">> }
\* the texts an entry can hold after such inputs: empty, or what the last
\* accepted input left
EntryTexts == {<<>>} \cup {insert_text(<<>>, substring) : substring \in InputStrings}

(***************************************************************************)
(* The program as a state machine.                                         *)
(***************************************************************************)
Keys == 1..Len(KEYBOARD)
Slots == 1..NumEntries

Init ==
    /\ entries = [i \in Slots |-> <<>>]
    /\ letter_state = [k \in Keys |-> UNKNOWN]
    /\ widgets = load_starting_words
    /\ corpus \in SmallCorpora
    /\ last_event = "start"

\* the user types or pastes `substring` into entry i (an entry in use, or a
\* free one while fewer than MaxLocked are in use)
InsertText(i, substring) ==
    /\ entries[i] # <<>> \/ Cardinality({j \in Slots : entries[j] # <<>>}) < MaxLocked
    /\ entries' = [entries EXCEPT ![i] = insert_text(entries[i], substring)]
    /\ last_event' = "insert_text"
    /\ UNCHANGED <<letter_state, widgets, corpus>>

\* the user presses keyboard button k
ChangeState(k) ==
    /\ letter_state' = [letter_state EXCEPT ![k] = change_state(letter_state[k])]
    /\ last_event' = "change_state"
    /\ UNCHANGED <<entries, widgets, corpus>>

\* WHScreen.search_words
SearchWords ==
    /\ widgets' = display_words(word_retriever(corpus,
                                               get_known_letters(entries),
                                               get_existent_letters(letter_state),
                                               get_nonexistent_letters(letter_state)))
    /\ last_event' = "search_words"
    /\ UNCHANGED <<entries, letter_state, corpus>>

\* reset_game without the loop over the entries
ResetGameKeepsEntries ==
    /\ letter_state' = [k \in 1..Len(letter_state) |-> UNKNOWN]
    /\ widgets' = load_starting_words
    /\ last_event' = "reset_game"
    /\ UNCHANGED <<entries, corpus>>

\* SettingsPopup.reset_game
ResetGame ==
    /\ entries' = [i \in 1..Len(entries) |-> <<>>]
    /\ letter_state' = [k \in 1..Len(letter_state) |-> UNKNOWN]
    /\ widgets' = load_starting_words
    /\ last_event' = "reset_game"
    /\ UNCHANGED corpus

Next ==
    \/ \E i \in Slots, s \in InputStrings : InsertText(i, s)
    \/ \E k \in 1..ClickedKeys : ChangeState(k)
    \/ SearchWords
    \/ ResetGame

Spec == Init /\ [][Next]_vars

(***************************************************************************)
(* The search as a function of its inputs: any clue state the user can set *)
(* up, over any of the tables, then one search.                            *)
(***************************************************************************)
InitSearch ==
    /\ entries \in {e \in [Slots -> EntryTexts] :
                       Cardinality({i \in Slots : e[i] # <<>>}) <= MaxLocked}
    /\ letter_state \in
         { [k \in Keys |-> IF k <= ClickedKeys THEN f[k] ELSE UNKNOWN] :
             f \in [1..ClickedKeys -> {UNKNOWN, EXISTENT, NONEXISTENT}] }
    /\ widgets = load_starting_words
    /\ corpus \in Corpora
    /\ last_event = "insert_text"

NextSearch == SearchWords

SpecSearch == InitSearch /\ [][NextSearch]_vars

(***************************************************************************)
(* The clue set of the current state, and the four checks of the search    *)
(* contract stated on sets of letters and positions.                       *)
(***************************************************************************)
Searched == last_event = "search_words"

Range(seq) == {seq[i] : i \in 1..Len(seq)}

Locked == get_known_letters(entries)
Existent == get_existent_letters(letter_state)
Nonexistent == get_nonexistent_letters(letter_state)

Occurs(letter, w) == \E p \in 1..Len(w) : <<w[p]>> = letter

PassesFor(w, locked, existent, nonexistent) ==
    /\ Len(w) = 5
    /\ \A a \in Range(existent) : Occurs(a, w)
    /\ \A a \in Range(nonexistent) : ~Occurs(a, w)
    /\ \A l \in Range(locked) : <<w[l[2] + 1]>> = l[1]

Passes(w) == PassesFor(w, Locked, Existent, Nonexistent)

Passing == {i \in 1..Len(corpus) : Passes(corpus[i])}

Min(a, b) == IF a <= b THEN a ELSE b

\* C1: every word the search displays has length 5, contains every existent
\* letter, contains no nonexistent letter and has each locked letter at its
\* locked position.
Thm_C1 == Searched => \A j \in 1..Len(widgets) : Passes(widgets[j])

\* a search with a locked, an existent and a nonexistent letter that returned
\* some words and rejected others
Witness_C1 ==
    /\ Searched
    /\ Locked # <<>> /\ Existent # <<>> /\ Nonexistent # <<>>
    /\ widgets # <<>>
    /\ \E i \in 1..Len(corpus) : Len(corpus[i]) = 5 /\ corpus[i] \notin Range(widgets)

\* C2: a word of the table that is not displayed, and that does not come after
\* the 200th displayed word, fails at least one of the four checks.
Thm_C2 ==
    Searched =>
        LET last == IF Len(widgets) >= WordLimit
                    THEN CHOOSE k \in 1..Len(corpus) : corpus[k] = widgets[Len(widgets)]
                    ELSE Len(corpus)
            shown == Range(widgets)
        IN \A i \in 1..last : corpus[i] \notin shown => ~Passes(corpus[i])

\* a search, not cut off, that returned a word ranked below a rejected word
Witness_C2 ==
    /\ Searched
    /\ Len(widgets) < WordLimit
    /\ \E i, j \in 1..Len(corpus) :
          /\ i < j
          /\ corpus[i] \notin Range(widgets)
          /\ corpus[j] \in Range(widgets)

\* the limits tried in place of the code's 200
Limits == 0..SmallLimit

\* the number of words the search yields before the display cuts them off
Retrieved == Len(word_retriever(corpus, Locked, Existent, Nonexistent))

WithNonexistent(k) ==
    display_words(word_retriever(corpus, Locked, Existent,
        get_nonexistent_letters([letter_state EXCEPT ![k] = NONEXISTENT])))

\* C4 as stated: adding a letter to nonexistent never adds a word to the
\* displayed result.
CE_C4 ==
    Searched => \A k \in 1..ClickedKeys : Range(WithNonexistent(k)) \subseteq Range(widgets)

\* C4 amended: when the search displayed fewer than 200 words, adding a letter
\* to nonexistent never adds a word to the displayed result.
Thm_C4 ==
    (Searched /\ Len(widgets) < WordLimit) =>
        \A k \in 1..ClickedKeys : Range(WithNonexistent(k)) \subseteq Range(widgets)

\* a search not cut off, and a letter whose addition to nonexistent removes
\* some of the displayed words and keeps others
Witness_C4 ==
    /\ Searched
    /\ Len(widgets) < WordLimit
    /\ Nonexistent # <<>>
    /\ \E k \in 1..ClickedKeys :
          /\ letter_state[k] = UNKNOWN
          /\ WithNonexistent(k) # <<>>
          /\ Len(WithNonexistent(k)) < Len(widgets)

\* C5: the displayed words are a subsequence of the table in its order, with no
\* word repeated (the tables hold each word once).
Thm_C5 ==
    Searched =>
        LET shown == Range(widgets)
            isShown(w) == w \in shown
        IN widgets = SelectSeq(corpus, isShown)

\* a search that returned two words with a rejected word between them
Witness_C5 ==
    /\ Searched
    /\ \E i, j, k \in 1..Len(corpus) :
          /\ i < j /\ j < k
          /\ corpus[i] \in Range(widgets)
          /\ corpus[j] \notin Range(widgets)
          /\ corpus[k] \in Range(widgets)

\* C8: when a letter is locked at a position and also nonexistent, the search
\* displays no word.
Thm_C8 ==
    (Searched /\ \E l \in Range(Locked) : l[1] \in Range(Nonexistent)) => widgets = <<>>

\* such a search over a table holding a word that has the letter at the locked
\* position only and passes the other checks
Witness_C8 ==
    /\ Searched
    /\ \E l \in Range(Locked) :
          /\ l[1] \in Range(Nonexistent)
          /\ \E i \in 1..Len(corpus) :
                /\ PassesFor(corpus[i], Locked, Existent, <<>>)
                /\ \A p \in 1..Len(corpus[i]) :
                      <<corpus[i][p]>> = l[1] <=> p = l[2] + 1
                /\ \A n \in Range(Nonexistent) : n # l[1] => ~Occurs(n, corpus[i])

(***************************************************************************)
(* The keyboard and the entries.                                           *)
(***************************************************************************)
\* C6: no letter is both in the existent and in the nonexistent letters, and
\* every button is in exactly one of the three states.
Thm_C6 ==
    LET ex == Range(Existent)
        nx == Range(Nonexistent)
    IN /\ \A k \in Keys : letter_state[k] \in {UNKNOWN, EXISTENT, NONEXISTENT}
       /\ ex \cap nx = {}
       /\ \A k \in Keys :
             /\ letter_state[k] = EXISTENT <=> button_letter[k] \in ex
             /\ letter_state[k] = NONEXISTENT <=> button_letter[k] \in nx

\* after a press, one letter is existent and another nonexistent
Witness_C6 ==
    /\ last_event = "change_state"
    /\ Existent # <<>>
    /\ Nonexistent # <<>>

\* the cycle of the contract: Unknown -> Present -> Absent -> Unknown
CycleNext(s) ==
    CASE s = UNKNOWN -> EXISTENT
      [] s = EXISTENT -> NONEXISTENT
      [] s = NONEXISTENT -> UNKNOWN

\* C7: every letter starts Unknown; a press moves the pressed letter one step
\* along Unknown -> Present -> Absent -> Unknown and leaves the other letters
\* alone; two more presses bring it back to where it was.
Thm_C7 ==
    /\ \A k \in Keys : letter_state[k] = UNKNOWN
    /\ [][last_event' = "change_state" =>
            \A k \in Keys : ChangeState(k) =>
                /\ letter_state'[k] = CycleNext(letter_state[k])
                /\ \A o \in Keys \ {k} : letter_state'[o] = letter_state[o]
                /\ change_state(change_state(letter_state'[k])) = letter_state[k]
                /\ letter_state[k] = UNKNOWN =>
                     change_state(change_state(change_state(UNKNOWN))) = UNKNOWN]_vars

\* a letter pressed twice and another pressed once
Witness_C7 ==
    /\ last_event = "change_state"
    /\ \E k, o \in Keys :
          letter_state[k] = NONEXISTENT /\ letter_state[o] = EXISTENT

\* C9: the game reset is always possible and leaves every letter Unknown, the
\* existent and nonexistent letters empty and every entry empty.
Thm_C9 ==
    /\ ENABLED ResetGame
    /\ last_event = "reset_game" =>
          /\ \A k \in Keys : letter_state[k] = UNKNOWN
          /\ Existent = <<>> /\ Nonexistent = <<>>
          /\ \A i \in Slots : entries[i] = <<>>
          /\ Locked = <<>>

\* the state a reset leaves behind
Witness_C9 == last_event = "reset_game" /\ widgets = load_starting_words

\* C10 as stated: every entry is empty or holds exactly one upper-case letter,
\* and every locked letter handed to the search is one lower-case character
\* with its own position in 0..4.
CE_C10 ==
    /\ \A i \in Slots :
          /\ Len(entries[i]) <= 1
          /\ entries[i] # <<>> => IsUpper(entries[i][1])
    /\ \A a \in 1..Len(Locked) :
          /\ Len(Locked[a][1]) = 1
          /\ IsLower(Locked[a][1][1])
          /\ Locked[a][2] \in 0..4
          /\ \A b \in 1..Len(Locked) : a # b => Locked[a][2] # Locked[b][2]

====
